---- MODULE Spec2Model ----
(***************************************************************************)
(* SpaceScrypt presence verification.                                      *)
(*                                                                         *)
(*   api/src/crypto.ts   (src/unnamed/part_000)  hex codec, message builder*)
(*   api/src/registry.ts                         beacon registry           *)
(*   api/src/index.ts                            /api/nonce, /api/verify   *)
(*   frontend App.tsx    (src/unnamed/part_001)  challenge/response session*)
(*                                                                         *)
(* Text is a sequence of one-character strings, a Uint8Array a sequence of *)
(* numbers 0..255, a BigInt a little-endian sequence of bytes without a    *)
(* leading zero byte (so that no value outgrows TLC's integers).           *)
(***************************************************************************)
EXTENDS Integers, Sequences, FiniteSets, TLC

\* ------------------------------------------------------------------------
\* Text, bytes and BigInt
\* ------------------------------------------------------------------------

Rep(c, n) == [i \in 1..n |-> c]

HexChars == <<"0","1","2","3","4","5","6","7","8","9","a","b","c","d","e","f">>

UpperHex == <<"A","B","C","D","E","F">>

LowerHexSet == {HexChars[k] : k \in 1..16}

DigitSet == {HexChars[k] : k \in 1..10}

LowerOf ==
    [c \in {UpperHex[k] : k \in 1..6} |->
        HexChars[10 + (CHOOSE k \in 1..6 : UpperHex[k] = c)]]

HexValOf == [c \in LowerHexSet |-> (CHOOSE k \in 1..16 : HexChars[k] = c) - 1]

\* String.prototype.toLowerCase on one character of the alphabet in use.
LowerChar(c) == IF c \in DOMAIN LowerOf THEN LowerOf[c] ELSE c

toLowerCase(s) == [i \in 1..Len(s) |-> LowerChar(s[i])]

\* [0-9a-f] and [0-9].
IsLowerHexChar(c) == c \in LowerHexSet

IsDigitChar(c) == c \in DigitSet

\* parseInt(c, 16) of one lower-case hex character.
HexVal(c) == HexValOf[c]

\* /^[0-9a-f]{n}$/i and /^[0-9a-fA-F]{n}$/ : exactly n hex characters.
MatchesHexN(s, n) ==
    /\ Len(s) = n
    /\ \A i \in 1..Len(s) : IsLowerHexChar(LowerChar(s[i]))

\* /^[0-9]+$/ : one or more decimal digits.
MatchesDigits(s) ==
    /\ Len(s) >= 1
    /\ \A i \in 1..Len(s) : IsDigitChar(s[i])

\* A call's outcome: thrown = "" and the value, or the message thrown.
Ok(v) == [thrown |-> "", value |-> v]

Throw(msg) == [thrown |-> msg, value |-> <<>>]

\* crypto.ts hexToBytes: lower-case, check the alphabet and the parity, then
\* parseInt(.., 16) of each pair.
hexToBytes(h) ==
    LET hex == toLowerCase(h) IN
    IF (\E i \in 1..Len(hex) : ~IsLowerHexChar(hex[i])) \/ Len(hex) % 2 # 0
    THEN Throw("invalid hex")
    ELSE Ok([i \in 1..(Len(hex) \div 2) |->
                16 * HexVal(hex[2 * i - 1]) + HexVal(hex[2 * i])])

\* A bytesToHex without padStart: a byte below 16 gives one character.
bytesToHex_NoPad(b) ==
    IF b = <<>> THEN <<>>
    ELSE LET F[i \in 1..Len(b)] ==
                 LET d == IF b[i] < 16 THEN <<HexChars[b[i] + 1]>>
                          ELSE <<HexChars[(b[i] \div 16) + 1], HexChars[(b[i] % 16) + 1]>>
                 IN  IF i = 1 THEN d ELSE F[i - 1] \o d
         IN  F[Len(b)]

\* crypto.ts bytesToHex: x.toString(16).padStart(2, "0") of each byte, joined.
bytesToHex(b) ==
    [i \in 1..(2 * Len(b)) |->
        IF i % 2 = 1 THEN HexChars[(b[(i + 1) \div 2] \div 16) + 1]
                     ELSE HexChars[(b[i \div 2] % 16) + 1]]

\* n * m + carry on a BigInt (little-endian bytes).
RECURSIVE BigMulAdd(_, _, _)
BigMulAdd(n, m, carry) ==
    IF n = <<>>
    THEN IF carry = 0 THEN <<>>
         ELSE <<carry % 256>> \o BigMulAdd(<<>>, m, carry \div 256)
    ELSE LET v == n[1] * m + carry
         IN  <<v % 256>> \o BigMulAdd(Tail(n), m, v \div 256)

\* BigInt(msStr) of a decimal digit string, digit by digit from the left.
RECURSIVE BigIntOfDigits(_, _)
BigIntOfDigits(s, acc) ==
    IF s = <<>> THEN acc
    ELSE BigIntOfDigits(Tail(s), BigMulAdd(acc, 10, HexVal(s[1])))

BigInt(msStr) == BigIntOfDigits(msStr, <<>>)

\* BigInt(msStr) returns for the empty string (0n) and for decimal digits,
\* and throws a SyntaxError for text with any other character of the
\* alphabet in use (which has no sign, blank or radix prefix).
BigIntParses(msStr) == \A i \in 1..Len(msStr) : IsDigitChar(msStr[i])

\* Number((n >> BigInt(k * 8)) & 0xffn)
ShiftMask(n, k) == IF k + 1 <= Len(n) THEN n[k + 1] ELSE 0

\* A u64StringTo8BE that writes the least significant byte first.
u64StringTo8BE_LittleEndian(msStr) ==
    IF ~BigIntParses(msStr) THEN Throw("SyntaxError")
    ELSE LET n == BigInt(msStr) IN Ok([i \in 1..8 |-> ShiftMask(n, i - 1)])

\* crypto.ts u64StringTo8BE: out[i] = (n >> (7 - i) * 8) & 0xff, i = 7..0.
\* Bits of n above the 64th are dropped, no range check is made.
u64StringTo8BE(msStr) ==
    IF ~BigIntParses(msStr) THEN Throw("SyntaxError")
    ELSE LET n == BigInt(msStr) IN Ok([i \in 1..8 |-> ShiftMask(n, 7 - (i - 1))])

\* crypto.ts buildMessage: nonce16 || ts_be64.
buildMessage(nonceHex, tsMs) ==
    LET nonce == hexToBytes(nonceHex) IN
    IF nonce.thrown # "" THEN nonce
    ELSE IF Len(nonce.value) # 16 THEN Throw("nonce must be exactly 16 bytes")
    ELSE LET ts == u64StringTo8BE(tsMs) IN
         IF ts.thrown # "" THEN ts ELSE Ok(nonce.value \o ts.value)

\* ------------------------------------------------------------------------
\* Ed25519 (tweetnacl), idealised
\* ------------------------------------------------------------------------

\* The one signature a key pair makes of a message: unforgeable and unique.
\* A key pair is named by its 32 public bytes; the 64 signature bytes carry
\* the key and the 24 message bytes, so that distinct (key, message) pairs
\* have distinct signatures.
SignDetached(pub, msg) == pub \o msg \o Rep(0, 64 - Len(pub) - Len(msg))

\* nacl.sign.detached.verify(msg, sig, publicKey): throws on a wrong size.
NaclVerify(msg, sig, pub) ==
    IF Len(sig) # 64 THEN Throw("bad signature size")
    ELSE IF Len(pub) # 32 THEN Throw("bad public key size")
    ELSE [thrown |-> "", value |-> (sig = SignDetached(pub, msg))]

\* ------------------------------------------------------------------------
\* Beacon registry (api/src/registry.ts)
\* ------------------------------------------------------------------------

EmptyMap == [k \in {} |-> <<>>]

\* The body of the for loop of loadBeaconRegistry over Object.entries(obj):
\* an entry that fails a test throws, the entries before it stay in REG.
RECURSIVE LoadEntries(_, _)
LoadEntries(entries, reg) ==
    IF entries = <<>> THEN [REG |-> reg, thrown |-> ""]
    ELSE LET beaconIdHex  == entries[1][1]
             publicKeyHex == entries[1][2]
         IN  IF ~MatchesHexN(beaconIdHex, 16)
             THEN [REG |-> reg, thrown |-> "Bad beaconIdHex"]
             ELSE IF ~MatchesHexN(publicKeyHex, 64)
             THEN [REG |-> reg, thrown |-> "Bad publicKeyHex"]
             ELSE LoadEntries(Tail(entries),
                      (toLowerCase(beaconIdHex) :> toLowerCase(publicKeyHex)) @@ reg)

\* A loadBeaconRegistry that stores every entry and tests the formats
\* afterwards.
loadBeaconRegistry_ValidateAfter(file) ==
    IF ~file.exists THEN [REG |-> EmptyMap, thrown |-> ""]
    ELSE LET n   == Len(file.entries)
             reg == [k \in {toLowerCase(file.entries[j][1]) : j \in 1..n} |->
                       toLowerCase(file.entries[
                           CHOOSE j \in 1..n : toLowerCase(file.entries[j][1]) = k][2])]
             bad == \E j \in 1..n : \/ ~MatchesHexN(file.entries[j][1], 16)
                                    \/ ~MatchesHexN(file.entries[j][2], 64)
         IN  [REG |-> reg, thrown |-> IF bad THEN "Bad entry" ELSE ""]

\* loadBeaconRegistry(file): REG.clear(), then nothing more for an absent
\* file, else the entries in the file's order.
loadBeaconRegistry(file) ==
    IF ~file.exists THEN [REG |-> EmptyMap, thrown |-> ""]
    ELSE LoadEntries(file.entries, EmptyMap)

\* A getPublicKeyHex without toLowerCase.
getPublicKeyHex_CaseSensitive(reg, beaconIdHex) ==
    IF beaconIdHex \in DOMAIN reg THEN [found |-> TRUE, value |-> reg[beaconIdHex]]
    ELSE [found |-> FALSE, value |-> <<>>]

\* getPublicKeyHex: REG.get(beaconIdHex.toLowerCase()), undefined if absent.
getPublicKeyHex(reg, beaconIdHex) ==
    LET k == toLowerCase(beaconIdHex) IN
    IF k \in DOMAIN reg THEN [found |-> TRUE, value |-> reg[k]]
    ELSE [found |-> FALSE, value |-> <<>>]

\* ------------------------------------------------------------------------
\* HTTP handlers (api/src/index.ts)
\* ------------------------------------------------------------------------

\* crypto.ts randomNonce16: 16 bytes of the CSPRNG. The k-th draw of a
\* process is modelled as a value no earlier draw has returned.
randomNonce16(k) == Rep(0, 15) \o <<k>>

\* GET /api/nonce: { nonceHex: bytesToHex(randomNonce16()) }
NonceHandler(k) == bytesToHex(randomNonce16(k))

\* The request body schema and the zod object of POST /api/verify.
\* A body schema without the sigHex pattern.
BodyValid_NoSignatureCheck(body) ==
    /\ MatchesHexN(body.beaconIdHex, 16)
    /\ MatchesHexN(body.nonceHex, 32)
    /\ MatchesDigits(body.tsMs)

BodyValid(body) ==
    /\ MatchesHexN(body.beaconIdHex, 16)
    /\ MatchesHexN(body.nonceHex, 32)
    /\ MatchesDigits(body.tsMs)
    /\ MatchesHexN(body.sigHex, 128)

\* A reply: the HTTP status, the JSON fields ok (hasOk: present) and error
\* ("" absent), and the steps the handler took, in order.
Reply(status, hasOk, ok, error, steps) ==
    [status |-> status, hasOk |-> hasOk, ok |-> ok, error |-> error,
     steps |-> steps]

\* A handler that checks the signature before it looks the beacon up: an
\* unknown beacon is reported only after the message was built.
VerifyHandler_LookupLast(reg, body) ==
    IF ~BodyValid(body)
    THEN Reply(400, FALSE, FALSE, "Bad Request", <<"validate">>)
    ELSE
    LET pubHex == getPublicKeyHex(reg, body.beaconIdHex)
        msg == buildMessage(body.nonceHex, body.tsMs)
        sig == hexToBytes(body.sigHex)
    IN
    IF msg.thrown # "" \/ sig.thrown # ""
    THEN Reply(500, FALSE, FALSE, "Internal Server Error",
               <<"validate", "buildMessage", "hexToBytes">>)
    ELSE IF ~pubHex.found \/ pubHex.value = <<>>
    THEN Reply(200, TRUE, FALSE, "",
               <<"validate", "buildMessage", "hexToBytes", "lookup">>)
    ELSE
    LET pub == hexToBytes(pubHex.value)
        valid == NaclVerify(msg.value, sig.value, pub.value) IN
    IF pub.thrown # "" \/ valid.thrown # ""
    THEN Reply(500, FALSE, FALSE, "Internal Server Error",
               <<"validate", "buildMessage", "hexToBytes", "lookup", "verify">>)
    ELSE Reply(200, TRUE, valid.value, "",
               <<"validate", "buildMessage", "hexToBytes", "lookup", "verify">>)

\* POST /api/verify.
VerifyHandler(reg, body) ==
    IF ~BodyValid(body)
    THEN Reply(400, FALSE, FALSE, "Bad Request", <<"validate">>)
    ELSE
    LET pubHex == getPublicKeyHex(reg, body.beaconIdHex) IN
    IF ~pubHex.found \/ pubHex.value = <<>>
    THEN Reply(400, TRUE, FALSE, "unknown_beacon", <<"validate", "lookup">>)
    ELSE
    LET msg == buildMessage(body.nonceHex, body.tsMs)
        sig == hexToBytes(body.sigHex)
        pub == hexToBytes(pubHex.value)
    IN
    IF msg.thrown # ""
    THEN Reply(500, FALSE, FALSE, "Internal Server Error",
               <<"validate", "lookup", "buildMessage">>)
    ELSE IF sig.thrown # "" \/ pub.thrown # ""
    THEN Reply(500, FALSE, FALSE, "Internal Server Error",
               <<"validate", "lookup", "buildMessage", "hexToBytes">>)
    ELSE
    LET valid == NaclVerify(msg.value, sig.value, pub.value) IN
    IF valid.thrown # ""
    THEN Reply(500, FALSE, FALSE, "Internal Server Error",
               <<"validate", "lookup", "buildMessage", "hexToBytes", "verify">>)
    ELSE Reply(200, TRUE, valid.value, "",
               <<"validate", "lookup", "buildMessage", "hexToBytes", "verify">>)

\* ------------------------------------------------------------------------
\* Client utilities (frontend App.tsx)
\* ------------------------------------------------------------------------

\* App.tsx bytesToHex.
AppBytesToHex(b) ==
    [i \in 1..(2 * Len(b)) |->
        HexChars[(IF i % 2 = 1 THEN b[(i + 1) \div 2] \div 16
                               ELSE b[i \div 2] % 16) + 1]]

\* App.tsx hexToBytes: /^[0-9a-fA-F]*$/ and an even length, else "bad hex".
AppHexToBytes(hex) ==
    IF (\E i \in 1..Len(hex) : ~IsLowerHexChar(LowerChar(hex[i]))) \/ Len(hex) % 2 # 0
    THEN Throw("bad hex")
    ELSE Ok([i \in 1..(Len(hex) \div 2) |->
                16 * HexVal(LowerChar(hex[2 * i - 1])) + HexVal(LowerChar(hex[2 * i]))])

\* App.tsx be64ToMs: n = (n << 8) | u8[i] for the 8 bytes, then Number(n).
\* The value is kept as a BigInt; Number(n) is exact below 2^53, and the
\* timestamps the model's beacons send are below it.
RECURSIVE StripZeros(_)
StripZeros(le) ==
    IF le = <<>> THEN <<>>
    ELSE IF le[Len(le)] = 0 THEN StripZeros(SubSeq(le, 1, Len(le) - 1))
    ELSE le

be64ToMs(u8) ==
    IF Len(u8) # 8 THEN Throw("ts must be 8 bytes")
    ELSE Ok(StripZeros([i \in 1..8 |-> u8[9 - i]]))

\* One long division of a BigInt by 10, from its most significant byte:
\* <<quotient, remainder>>.
RECURSIVE BigDivMod10(_, _)
BigDivMod10(n, rem) ==
    IF n = <<>> THEN <<(<<>>), rem>>
    ELSE LET v == rem * 256 + n[Len(n)]
             rest == BigDivMod10(SubSeq(n, 1, Len(n) - 1), v % 10)
         IN  <<rest[1] \o <<v \div 10>>, rest[2]>>

\* String(ms) of a non-negative integer: its decimal digits.
RECURSIVE DigitsOf(_)
DigitsOf(n) ==
    IF n = <<>> THEN <<>>
    ELSE LET qr == BigDivMod10(n, 0)
         IN  DigitsOf(StripZeros(qr[1])) \o <<HexChars[qr[2] + 1]>>

NumberToString(n) == IF n = <<>> THEN <<"0">> ELSE DigitsOf(n)

\* ------------------------------------------------------------------------
\* The values the model's requests, files and devices are drawn from
\* ------------------------------------------------------------------------

toUpperCase(s) ==
    [i \in 1..Len(s) |->
        IF \E k \in 11..16 : HexChars[k] = s[i]
        THEN UpperHex[(CHOOSE k \in 11..16 : HexChars[k] = s[i]) - 10]
        ELSE s[i]]

\* The identifier of the verify schema's example, and one never registered.
BeaconIdA == <<"a","1","b","2","c","3","d","4","e","5","f","6","0","7","0","8">>

BeaconIdB == <<"a","1","b","2","c","3","d","4","e","5","f","6","0","7","0","9">>

\* Two key pairs, named by their public bytes (0xab.., 0xcd..).
PubA == Rep(171, 32)

PubB == Rep(205, 32)

\* config/beacons.json as parsed: present or not, and its entries in order.
FileAbsent == [exists |-> FALSE, entries |-> <<>>]

FileGood ==
    [exists |-> TRUE,
     entries |-> << <<toUpperCase(BeaconIdA), toUpperCase(bytesToHex(PubA))>> >>]

FileBadSecond ==
    [exists |-> TRUE,
     entries |-> << <<BeaconIdA, bytesToHex(PubA)>>,
                    <<BeaconIdB, SubSeq(bytesToHex(PubB), 1, 63)>> >>]

Files == {FileAbsent, FileGood, FileBadSecond}

\* Decimal timestamps: 5, 5 with a leading zero, a wall-clock value,
\* 2^64 - 1, 2^64 + 5, and a string that is no number.
Ts5 == <<"5">>

Ts05 == <<"0","5">>

TsNow == <<"1","7","0","0","0","0","0","0","0","0","0","0","0">>

TsMax == <<"1","8","4","4","6","7","4","4","0","7","3","7","0","9","5","5","1","6","1","5">>

TsWrap5 == <<"1","8","4","4","6","7","4","4","0","7","3","7","0","9","5","5","1","6","2","1">>

TsBad == <<"5","a">>

\* The signature the holder of key pub makes of nonce || be64(ts), as hex.
SigHexOf(pub, nonceHex, tsMs) ==
    bytesToHex(SignDetached(pub, buildMessage(nonceHex, tsMs).value))

ApiBeaconIds == {BeaconIdA, BeaconIdB, SubSeq(BeaconIdA, 1, 15)}

ApiNonces == {NonceHandler(1), NonceHandler(2), SubSeq(NonceHandler(1), 1, 31)}

ApiTimestamps == {Ts5, TsNow, TsWrap5, TsBad}

ApiSignatures ==
    {SigHexOf(PubA, NonceHandler(1), Ts5),
     SigHexOf(PubA, NonceHandler(1), TsNow),
     SigHexOf(PubB, NonceHandler(1), Ts5),
     Rep("0", 128),
     Rep("0", 126)}

ApiBodies ==
    [beaconIdHex : ApiBeaconIds, nonceHex : ApiNonces,
     tsMs : ApiTimestamps, sigHex : ApiSignatures]

NoBody == [beaconIdHex |-> <<>>, nonceHex |-> <<>>, tsMs |-> <<>>, sigHex |-> <<>>]

\* No exported function has been called directly.
NoCall ==
    [fn |-> "", text |-> <<>>, text2 |-> <<>>, bytes |-> <<>>, file |-> FileAbsent,
     thrown |-> "", found |-> FALSE, outText |-> <<>>, outBytes |-> <<>>]

NoReply == Reply(0, FALSE, FALSE, "", <<>>)

\* Nothing has been captured.
NoMemo == [body |-> NoBody, resp |-> NoReply]

\* The nonce requests (verifyPresence calls), the GATT connections and the
\* notifications of one run of the model.
MaxCalls == 3

MaxConn == 2

MaxNotif == 2

\* The beacons in radio range: A is registered (FileGood), B is not.
Beacons == {"A", "B"}

BeaconId(dev) == IF dev = "A" THEN BeaconIdA ELSE BeaconIdB

BeaconKey(dev) == IF dev = "A" THEN PubA ELSE PubB

\* The beacon's clock reading, 8 bytes big-endian.
BeaconClock == u64StringTo8BE(TsNow).value

\* What a beacon may notify: clock || its signature of challenge || clock
\* (72 bytes), or a 70-byte payload.
NotifyKinds == {"signed", "short"}

NotifyPayload(kind, dev, challenge) ==
    IF kind = "signed"
    THEN BeaconClock \o SignDetached(BeaconKey(dev), challenge \o BeaconClock)
    ELSE Rep(0, 70)

\* ------------------------------------------------------------------------
\* State
\* ------------------------------------------------------------------------

VARIABLES
    REG,        \* registry.ts REG: beaconIdHex -> publicKeyHex
    server,     \* the API process: "boot", "listening", "crashed"
    drawn,      \* randomNonce16 draws made so far
    apiNonce,   \* the nonceHex of the last GET /api/nonce reply
    apiReq,     \* the body of the last POST /api/verify
    apiResp,    \* its reply
    earlier,    \* the last body before apiReq that was accepted
    lib,        \* the last direct call of an exported function, with its outcome
    memo,       \* a verify request an observer captured, with its reply
    \* the browser session (App.tsx)
    conn,            \* conn.current: 0 for null, else the connection's number
    notifyAttached,  \* notifyAttached.current
    nonceRef,        \* nonceRef.current
    beaconIdHex,     \* React state
    nonceHex,
    verified,        \* "null", "true", "false"
    err,
    connecting,
    verifying,
    cb,              \* the connectBeacon call in progress
    vp,              \* the verifyPresence calls made, each with its position
    runs,            \* the onNotify runs that reached the verify request
    \* the Bluetooth side
    nConn,           \* GATT connections made so far
    devOf,           \* the device of each connection
    linkUp,          \* the connections whose device.gatt.connected holds
    startCount,      \* startNotifications calls that took effect, per connection
    listeners,       \* "characteristicvaluechanged" listeners of signRespChar
    beaconNonce,     \* the challenge each connection's beacon last received
    nNotif           \* notifications delivered so far

apiVars == <<REG, server, drawn, apiNonce, apiReq, apiResp, earlier, lib, memo>>

refVars == <<conn, notifyAttached, nonceRef>>

uiVars == <<beaconIdHex, nonceHex, verified, err, connecting, verifying>>

callVars == <<cb, vp, runs>>

bleVars == <<nConn, devOf, linkUp, startCount, listeners, beaconNonce, nNotif>>

sessVars == <<refVars, uiVars, callVars, bleVars>>

vars == <<apiVars, sessVars>>

Accepted(resp) == resp.status = 200 /\ resp.hasOk /\ resp.ok

\* ------------------------------------------------------------------------
\* The browser session: App.tsx, as mounted
\* ------------------------------------------------------------------------

IdleCall == [pc |-> "idle", dev |-> "", c |-> 0]

SessInit ==
    /\ conn = 0
    /\ notifyAttached = FALSE
    /\ nonceRef = <<>>
    /\ beaconIdHex = <<>>
    /\ nonceHex = <<>>
    /\ verified = "null"
    /\ err = ""
    /\ connecting = FALSE
    /\ verifying = FALSE
    /\ cb = IdleCall
    /\ vp = <<>>
    /\ runs = <<>>
    /\ nConn = 0
    /\ devOf = [c \in 1..MaxConn |-> ""]
    /\ linkUp = {}
    /\ startCount = [c \in 1..MaxConn |-> 0]
    /\ listeners = [c \in 1..MaxConn |-> <<>>]
    /\ beaconNonce = [c \in 1..MaxConn |-> <<>>]
    /\ nNotif = 0

\* ------------------------------------------------------------------------
\* The API process alone: any caller, any request
\* ------------------------------------------------------------------------

ApiInit ==
    /\ REG = EmptyMap
    /\ server = "boot"
    /\ drawn = 0
    /\ apiNonce = <<>>
    /\ apiReq = NoBody
    /\ apiResp = NoReply
    /\ earlier = NoBody
    /\ lib = NoCall
    /\ memo = NoMemo
    /\ SessInit

\* index.ts: loadBeaconRegistry() at module scope, before listen(); a throw
\* there ends the process.
Boot(file) ==
    /\ server = "boot"
    /\ LET r == loadBeaconRegistry(file) IN
        /\ REG' = r.REG
        /\ server' = IF r.thrown = "" THEN "listening" ELSE "crashed"
    /\ UNCHANGED <<drawn, apiNonce, apiReq, apiResp, earlier, lib, memo, sessVars>>

ApiNonce ==
    /\ server = "listening"
    /\ drawn < MaxCalls
    /\ drawn' = drawn + 1
    /\ apiNonce' = NonceHandler(drawn + 1)
    /\ UNCHANGED <<REG, server, apiReq, apiResp, earlier, lib, memo, sessVars>>

\* A handler that consumes the registry entry of a beacon it accepted.
ApiVerify_ConsumesBeacon(body) ==
    /\ server = "listening"
    /\ apiReq' = body
    /\ apiResp' = VerifyHandler(REG, body)
    /\ earlier' = IF Accepted(apiResp) THEN apiReq ELSE earlier
    /\ REG' = IF Accepted(VerifyHandler(REG, body))
              THEN [k \in DOMAIN REG \ {toLowerCase(body.beaconIdHex)} |-> REG[k]]
              ELSE REG
    /\ UNCHANGED <<server, drawn, apiNonce, lib, memo, sessVars>>

\* A handler with a seen-request cache: the request accepted last is
\* rejected when it is sent again.
ApiVerify_RejectsReplay(body) ==
    /\ server = "listening"
    /\ apiReq' = body
    /\ apiResp' = IF Accepted(VerifyHandler(REG, body))
                     /\ ((Accepted(apiResp) /\ body = apiReq) \/ body = earlier)
                  THEN Reply(400, TRUE, FALSE, "replayed", <<"validate", "seen">>)
                  ELSE VerifyHandler(REG, body)
    /\ earlier' = IF Accepted(apiResp) THEN apiReq ELSE earlier
    /\ UNCHANGED <<REG, server, drawn, apiNonce, lib, memo, sessVars>>

ApiVerify(body) ==
    /\ server = "listening"
    /\ apiReq' = body
    /\ apiResp' = VerifyHandler(REG, body)
    /\ earlier' = IF Accepted(apiResp) THEN apiReq ELSE earlier
    /\ UNCHANGED <<REG, server, drawn, apiNonce, lib, memo, sessVars>>

ApiNext ==
    \/ \E file \in Files : Boot(file)
    \/ ApiNonce
    \/ \E body \in ApiBodies : ApiVerify(body)

SpecApi == ApiInit /\ [][ApiNext]_vars

\* ------------------------------------------------------------------------
\* The API process and an observer that captures a request and replays it
\* ------------------------------------------------------------------------

\* Requests with the nonce text of the first draw: for beacons A and B, two
\* timestamps and every signature text.
ReplayBodies ==
    {b \in ApiBodies : /\ b.beaconIdHex \in {BeaconIdA, BeaconIdB}
                       /\ b.nonceHex = NonceHandler(1)
                       /\ b.tsMs \in {Ts5, TsNow}}

\* The observer keeps the last request and its reply (lines 106-124 carry
\* nothing that a second sender could not repeat).
Capture ==
    /\ server = "listening"
    /\ apiReq # NoBody
    /\ memo' = [body |-> apiReq, resp |-> apiResp]
    /\ UNCHANGED <<REG, server, drawn, apiNonce, apiReq, apiResp, earlier, lib, sessVars>>

ReplayNext ==
    \/ \E file \in Files : Boot(file)
    \/ ApiNonce
    \/ \E body \in ReplayBodies : ApiVerify(body)
    \/ Capture

SpecReplay == ApiInit /\ [][ReplayNext]_vars

\* ------------------------------------------------------------------------
\* The exported functions of crypto.ts and registry.ts, called directly
\* ------------------------------------------------------------------------

\* Texts of at most n characters over the characters cs.
RECURSIVE TextsUpTo(_, _)
TextsUpTo(cs, n) ==
    IF n = 0 THEN {<<>>}
    ELSE LET shorter == TextsUpTo(cs, n - 1) IN
         shorter \cup {Append(t, c) : t \in shorter, c \in cs}

MaxHexLen == 3

MaxBytesLen == 2

\* Hex text in both cases, and "g", which is no hex digit.
LibHexTexts == TextsUpTo({"0", "a", "F", "g"}, MaxHexLen)

LibByteSeqs == TextsUpTo({0, 9, 10, 171, 255}, MaxBytesLen)

\* 2^64.
TsPow64 ==
    <<"1","8","4","4","6","7","4","4","0","7","3","7","0","9","5","5","1","6","1","6">>

LibTimestamps == {<<>>, Ts5, Ts05, TsNow, TsMax, TsPow64, TsWrap5, TsBad}

\* Nonce text of 16 bytes in lower and upper case, of 15 and 17 bytes, of an
\* odd length, and with a character that is no hex digit.
LibNonces ==
    {NonceHandler(1), toUpperCase(bytesToHex(Rep(171, 16))),
     SubSeq(NonceHandler(1), 1, 30), NonceHandler(1) \o <<"0", "0">>,
     SubSeq(NonceHandler(1), 1, 31), SubSeq(NonceHandler(1), 1, 31) \o <<"g">>}

\* A registry file with two entries, the first with upper-case letters.
FileTwo ==
    [exists |-> TRUE,
     entries |-> << <<toUpperCase(BeaconIdA), toUpperCase(bytesToHex(PubA))>>,
                    <<BeaconIdB, bytesToHex(PubB)>> >>]

\* A registry file whose first entry has a bad identifier.
FileBadFirst ==
    [exists |-> TRUE,
     entries |-> << <<SubSeq(BeaconIdA, 1, 15), bytesToHex(PubA)>>,
                    <<BeaconIdB, bytesToHex(PubB)>> >>]

LibFiles == {FileAbsent, FileGood, FileTwo, FileBadSecond, FileBadFirst}

\* Identifiers in lower, upper and mixed case, and one of 15 characters.
LibBeaconIds ==
    {BeaconIdA, toUpperCase(BeaconIdA),
     toUpperCase(SubSeq(BeaconIdA, 1, 8)) \o SubSeq(BeaconIdA, 9, 16),
     BeaconIdB, SubSeq(BeaconIdA, 1, 15)}

CallHexToBytes(h) ==
    /\ LET r == hexToBytes(h) IN
       lib' = [NoCall EXCEPT !.fn = "hexToBytes", !.text = h,
                             !.thrown = r.thrown, !.outBytes = r.value]
    /\ UNCHANGED <<REG, server, drawn, apiNonce, apiReq, apiResp, earlier, memo, sessVars>>

CallBytesToHex(b) ==
    /\ lib' = [NoCall EXCEPT !.fn = "bytesToHex", !.bytes = b,
                             !.outText = bytesToHex(b)]
    /\ UNCHANGED <<REG, server, drawn, apiNonce, apiReq, apiResp, earlier, memo, sessVars>>

CallBuildMessage(n, ts) ==
    /\ LET r == buildMessage(n, ts) IN
       lib' = [NoCall EXCEPT !.fn = "buildMessage", !.text = n, !.text2 = ts,
                             !.thrown = r.thrown, !.outBytes = r.value]
    /\ UNCHANGED <<REG, server, drawn, apiNonce, apiReq, apiResp, earlier, memo, sessVars>>

CallLoadBeaconRegistry(file) ==
    /\ LET r == loadBeaconRegistry(file) IN
        /\ REG' = r.REG
        /\ lib' = [NoCall EXCEPT !.fn = "loadBeaconRegistry", !.file = file,
                                 !.thrown = r.thrown]
    /\ UNCHANGED <<server, drawn, apiNonce, apiReq, apiResp, earlier, memo, sessVars>>

CallGetPublicKeyHex(id) ==
    /\ LET r == getPublicKeyHex(REG, id) IN
       lib' = [NoCall EXCEPT !.fn = "getPublicKeyHex", !.text = id,
                             !.found = r.found, !.outText = r.value]
    /\ UNCHANGED <<REG, server, drawn, apiNonce, apiReq, apiResp, earlier, memo, sessVars>>

LibNext ==
    \/ \E h \in LibHexTexts : CallHexToBytes(h)
    \/ \E b \in LibByteSeqs : CallBytesToHex(b)
    \/ \E n \in LibNonces, ts \in LibTimestamps : CallBuildMessage(n, ts)
    \/ \E file \in LibFiles : CallLoadBeaconRegistry(file)
    \/ \E id \in LibBeaconIds : CallGetPublicKeyHex(id)

SpecLib == ApiInit /\ [][LibNext]_vars

\* ------------------------------------------------------------------------
\* connectBeacon (App.tsx 145-169)
\* ------------------------------------------------------------------------

\* The Connect button is rendered while beaconIdHex is empty and is disabled
\* while connecting (App.tsx 311-319). Up to the first await.
ClickConnect ==
    /\ beaconIdHex = <<>>
    /\ ~connecting
    /\ nConn < MaxConn
    /\ err' = ""
    /\ verified' = "null"
    /\ connecting' = TRUE
    /\ cb' = [pc |-> "requestDevice", dev |-> "", c |-> 0]
    /\ UNCHANGED <<apiVars, refVars, beaconIdHex, nonceHex, verifying, vp, runs, bleVars>>

\* requestDevice resolves with the device the user picked.
CbRequestDevice(dev) ==
    /\ cb.pc = "requestDevice"
    /\ cb' = [cb EXCEPT !.pc = "gattConnect", !.dev = dev]
    /\ UNCHANGED <<apiVars, refVars, uiVars, vp, runs, bleVars>>

\* device.gatt.connect() resolves: a new connection, its link up.
CbGattConnect ==
    /\ cb.pc = "gattConnect"
    /\ nConn' = nConn + 1
    /\ devOf' = [devOf EXCEPT ![nConn + 1] = cb.dev]
    /\ linkUp' = linkUp \cup {nConn + 1}
    /\ cb' = [cb EXCEPT !.pc = "getPrimaryService", !.c = nConn + 1]
    /\ UNCHANGED <<apiVars, refVars, uiVars, vp, runs,
                   startCount, listeners, beaconNonce, nNotif>>

\* getPrimaryService and the first two getCharacteristic calls resolve.
CbResolve ==
    /\ cb.pc \in {"getPrimaryService", "getIdChar", "getNonceChar"}
    /\ cb.c \in linkUp
    /\ cb' = [cb EXCEPT !.pc = CASE cb.pc = "getPrimaryService" -> "getIdChar"
                                 [] cb.pc = "getIdChar" -> "getNonceChar"
                                 [] OTHER -> "getRespChar"]
    /\ UNCHANGED <<apiVars, refVars, uiVars, vp, runs, bleVars>>

\* The third getCharacteristic resolves: conn.current is set and readValue
\* is called.
CbGetRespChar ==
    /\ cb.pc = "getRespChar"
    /\ cb.c \in linkUp
    /\ conn' = cb.c
    /\ cb' = [cb EXCEPT !.pc = "readValue"]
    /\ UNCHANGED <<apiVars, notifyAttached, nonceRef, uiVars, vp, runs, bleVars>>

\* idChar.readValue() resolves with the beacon's 8 identity bytes.
CbReadValue ==
    /\ cb.pc = "readValue"
    /\ cb.c \in linkUp
    /\ beaconIdHex' = toLowerCase(AppBytesToHex(hexToBytes(BeaconId(cb.dev)).value))
    /\ connecting' = FALSE
    /\ cb' = IdleCall
    /\ UNCHANGED <<apiVars, refVars, nonceHex, verified, err, verifying, vp, runs, bleVars>>

\* The pending call rejects: catch and finally.
CbReject ==
    /\ cb.pc # "idle"
    /\ err' = "connect failed"
    /\ connecting' = FALSE
    /\ cb' = IdleCall
    /\ UNCHANGED <<apiVars, refVars, beaconIdHex, nonceHex, verified, verifying,
                   vp, runs, bleVars>>

\* ------------------------------------------------------------------------
\* disconnectBeacon (App.tsx 171-185)
\* ------------------------------------------------------------------------

\* The Disconnect button is rendered while beaconIdHex is not empty
\* (App.tsx 330-335). A verify request in flight is marked cancelled; the
\* mark is read by no action.
disconnectBeacon ==
    /\ beaconIdHex # <<>>
    /\ linkUp' = IF conn # 0 /\ conn \in linkUp THEN linkUp \ {conn} ELSE linkUp
    /\ conn' = 0
    /\ notifyAttached' = FALSE
    /\ beaconIdHex' = <<>>
    /\ verified' = "null"
    /\ nonceHex' = <<>>
    /\ err' = ""
    /\ runs' = [k \in DOMAIN runs |->
                  IF runs[k].pc = "fetchVerify"
                  THEN [runs[k] EXCEPT !.cancelled = TRUE] ELSE runs[k]]
    /\ UNCHANGED <<apiVars, nonceRef, connecting, verifying, cb, vp,
                   nConn, devOf, startCount, listeners, beaconNonce, nNotif>>

\* ------------------------------------------------------------------------
\* verifyPresence (App.tsx 187-213)
\* ------------------------------------------------------------------------

\* catch: setErr, setVerifying(false).
VpFail(i, msg) ==
    /\ vp' = [vp EXCEPT ![i].pc = "done", ![i].onChar = 0, ![i].data = <<>>]
    /\ err' = msg
    /\ verifying' = FALSE

\* Line 208: conn.current.signNonceChar.writeValueWithoutResponse(
\* hexToBytes(nonceRef.current)), with ref the value of nonceRef.current.
BeginWrite(i, ref) ==
    IF conn = 0 THEN VpFail(i, "TypeError")
    ELSE LET data == AppHexToBytes(ref) IN
         IF data.thrown # "" THEN VpFail(i, data.thrown)
         ELSE /\ vp' = [vp EXCEPT ![i].pc = "writeValue", ![i].onChar = conn,
                                  ![i].data = data.value]
              /\ UNCHANGED <<err, verifying>>

\* The Verify button is rendered while beaconIdHex is not empty and is
\* disabled while verifying (App.tsx 320-329). Up to the fetch of the nonce.
\* Each click is of a new render, so each call has its own onNotify closure,
\* which holds the beaconIdHex of that render.
ClickVerify ==
    /\ beaconIdHex # <<>>
    /\ ~verifying
    /\ Len(vp) < MaxCalls
    /\ verified' = "null"
    /\ IF conn = 0
       THEN /\ err' = "Not connected to a beacon yet"
            /\ verifying' = FALSE
            /\ vp' = Append(vp, [pc |-> "done", bid |-> beaconIdHex,
                                 onChar |-> 0, data |-> <<>>])
       ELSE /\ err' = ""
            /\ verifying' = TRUE
            /\ vp' = Append(vp, [pc |-> "fetchNonce", bid |-> beaconIdHex,
                                 onChar |-> 0, data |-> <<>>])
    /\ UNCHANGED <<apiVars, refVars, beaconIdHex, nonceHex, connecting, cb, runs, bleVars>>

\* A verifyPresence that keeps the nonce it retained first while one is
\* outstanding, instead of overwriting it.
VpNonceOk_KeepFirst(i) ==
    /\ vp[i].pc = "fetchNonce"
    /\ server = "listening"
    /\ drawn' = drawn + 1
    /\ apiNonce' = NonceHandler(drawn + 1)
    /\ nonceHex' = NonceHandler(drawn + 1)
    /\ nonceRef' = IF nonceRef = <<>> THEN NonceHandler(drawn + 1) ELSE nonceRef
    /\ IF ~notifyAttached
       THEN IF conn = 0 THEN VpFail(i, "TypeError")
            ELSE /\ vp' = [vp EXCEPT ![i].pc = "startNotifications", ![i].onChar = conn]
                 /\ UNCHANGED <<err, verifying>>
       ELSE BeginWrite(i, IF nonceRef = <<>> THEN NonceHandler(drawn + 1) ELSE nonceRef)
    /\ UNCHANGED <<REG, server, apiReq, apiResp, earlier, lib, memo,
                   conn, notifyAttached,
                   beaconIdHex, verified, connecting, cb, runs, bleVars>>

\* GET /api/nonce replies: the nonce is retained (lines 198-200), then the
\* subscription step or the write begins.
VpNonceOk(i) ==
    /\ vp[i].pc = "fetchNonce"
    /\ server = "listening"
    /\ drawn' = drawn + 1
    /\ apiNonce' = NonceHandler(drawn + 1)
    /\ nonceHex' = NonceHandler(drawn + 1)
    /\ nonceRef' = NonceHandler(drawn + 1)
    /\ IF ~notifyAttached
       THEN IF conn = 0 THEN VpFail(i, "TypeError")
            ELSE /\ vp' = [vp EXCEPT ![i].pc = "startNotifications", ![i].onChar = conn]
                 /\ UNCHANGED <<err, verifying>>
       ELSE BeginWrite(i, NonceHandler(drawn + 1))
    /\ UNCHANGED <<REG, server, apiReq, apiResp, earlier, lib, memo,
                   conn, notifyAttached,
                   beaconIdHex, verified, connecting, cb, runs, bleVars>>

\* The fetch rejects, or the reply is not ok.
VpNonceFail(i) ==
    /\ vp[i].pc = "fetchNonce"
    /\ VpFail(i, "nonce failed")
    /\ UNCHANGED <<apiVars, refVars, beaconIdHex, nonceHex, verified, connecting,
                   cb, runs, bleVars>>

\* startNotifications resolves: the listener is added (the same function
\* object is added once), the flag is set, the write begins (lines 204-208).
VpStartOk(i) ==
    /\ vp[i].pc = "startNotifications"
    /\ vp[i].onChar \in linkUp
    /\ startCount' = [startCount EXCEPT ![vp[i].onChar] = @ + 1]
    /\ IF conn = 0
       THEN /\ VpFail(i, "TypeError")
            /\ UNCHANGED <<listeners, notifyAttached>>
       ELSE /\ listeners' = [listeners EXCEPT ![conn] =
                               IF \E j \in 1..Len(@) : @[j] = i THEN @ ELSE Append(@, i)]
            /\ notifyAttached' = TRUE
            /\ BeginWrite(i, nonceRef)
    /\ UNCHANGED <<apiVars, conn, nonceRef, beaconIdHex, nonceHex, verified,
                   connecting, cb, runs, nConn, devOf, linkUp, beaconNonce, nNotif>>

VpStartFail(i) ==
    /\ vp[i].pc = "startNotifications"
    /\ VpFail(i, "GATT operation failed")
    /\ UNCHANGED <<apiVars, refVars, beaconIdHex, nonceHex, verified, connecting,
                   cb, runs, bleVars>>

\* writeValueWithoutResponse resolves: the beacon has the challenge.
VpWriteOk(i) ==
    /\ vp[i].pc = "writeValue"
    /\ vp[i].onChar \in linkUp
    /\ beaconNonce' = [beaconNonce EXCEPT ![vp[i].onChar] = vp[i].data]
    /\ vp' = [vp EXCEPT ![i].pc = "done", ![i].onChar = 0, ![i].data = <<>>]
    /\ UNCHANGED <<apiVars, refVars, uiVars, cb, runs,
                   nConn, devOf, linkUp, startCount, listeners, nNotif>>

VpWriteFail(i) ==
    /\ vp[i].pc = "writeValue"
    /\ VpFail(i, "GATT operation failed")
    /\ UNCHANGED <<apiVars, refVars, beaconIdHex, nonceHex, verified, connecting,
                   cb, runs, bleVars>>

\* ------------------------------------------------------------------------
\* onNotify (App.tsx 215-266)
\* ------------------------------------------------------------------------

\* A listener without the length check of line 220.
OnNotifySync_NoLengthCheck(i, raw, st) ==
    LET tsBytes  == SubSeq(raw, 1, 8)
        sigBytes == SubSeq(raw, 9, Len(raw))
        ms       == be64ToMs(tsBytes)
        sig      == AppBytesToHex(sigBytes)
    IN  IF nonceRef = <<>> \/ Len(nonceRef) # 32
        THEN [st EXCEPT !.err = "Nonce not ready", !.verifying = FALSE]
        ELSE [st EXCEPT !.runs = Append(@,
                 [pc |-> "fetchVerify",
                  payload |-> [beaconIdHex |-> vp[i].bid,
                               nonceHex |-> nonceRef,
                               tsMs |-> NumberToString(ms.value),
                               sigHex |-> sig],
                  cancelled |-> FALSE])]

\* A listener without the guard of lines 231-235.
OnNotifySync_NoGuard(i, raw, st) ==
    IF Len(raw) # 72
    THEN [st EXCEPT !.err = "Expected 72B", !.verifying = FALSE]
    ELSE [st EXCEPT !.runs = Append(@,
             [pc |-> "fetchVerify",
              payload |-> [beaconIdHex |-> vp[i].bid,
                           nonceHex |-> nonceRef,
                           tsMs |-> NumberToString(be64ToMs(SubSeq(raw, 1, 8)).value),
                           sigHex |-> AppBytesToHex(SubSeq(raw, 9, Len(raw)))],
              cancelled |-> FALSE])]

\* Lines 216-257 of the listener of call i, on the 'raw' bytes: up to the
\* return or to the fetch of /api/verify. st holds err, verifying and runs.
OnNotifySync(i, raw, st) ==
    IF Len(raw) # 72
    THEN [st EXCEPT !.err = "Expected 72B", !.verifying = FALSE]
    ELSE LET tsBytes  == SubSeq(raw, 1, 8)
             sigBytes == SubSeq(raw, 9, Len(raw))
             ms       == be64ToMs(tsBytes)
             sig      == AppBytesToHex(sigBytes)
         IN  IF nonceRef = <<>> \/ Len(nonceRef) # 32
             THEN [st EXCEPT !.err = "Nonce not ready", !.verifying = FALSE]
             ELSE [st EXCEPT !.runs = Append(@,
                      [pc |-> "fetchVerify",
                       payload |-> [beaconIdHex |-> vp[i].bid,
                                    nonceHex |-> nonceRef,
                                    tsMs |-> NumberToString(ms.value),
                                    sigHex |-> sig],
                       cancelled |-> FALSE])]

\* The event is dispatched to the listeners in the order they were added.
RECURSIVE Dispatch(_, _, _)
Dispatch(ls, raw, st) ==
    IF ls = <<>> THEN st
    ELSE Dispatch(Tail(ls), raw, OnNotifySync(ls[1], raw, st))

\* The beacon of connection c notifies signRespChar.
Notify(c, kind) ==
    /\ c \in linkUp
    /\ startCount[c] > 0
    /\ nNotif < MaxNotif
    /\ kind = "signed" => beaconNonce[c] # <<>>
    /\ nNotif' = nNotif + 1
    /\ LET st == Dispatch(listeners[c],
                          NotifyPayload(kind, devOf[c], beaconNonce[c]),
                          [err |-> err, verifying |-> verifying, runs |-> runs])
       IN  /\ err' = st.err
           /\ verifying' = st.verifying
           /\ runs' = st.runs
    /\ UNCHANGED <<apiVars, refVars, beaconIdHex, nonceHex, verified, connecting,
                   cb, vp, nConn, devOf, linkUp, startCount, listeners, beaconNonce>>

\* An onNotify that takes the HTTP status 200 for success (res.ok in place
\* of json.ok).
OnVerifyReply_StatusOk(k) ==
    /\ runs[k].pc = "fetchVerify"
    /\ server = "listening"
    /\ \E json \in {VerifyHandler(REG, runs[k].payload)} :
        /\ verified' = IF json.status = 200 THEN "true" ELSE "false"
        /\ err' = IF json.status # 200 /\ json.error # "" THEN json.error ELSE err
    /\ verifying' = FALSE
    /\ runs' = [runs EXCEPT ![k].pc = "done"]
    /\ UNCHANGED <<apiVars, refVars, beaconIdHex, nonceHex, connecting, cb, vp, bleVars>>

\* POST /api/verify replies to run k (lines 258-260, 264).
OnVerifyReply(k) ==
    /\ runs[k].pc = "fetchVerify"
    /\ server = "listening"
    /\ \E json \in {VerifyHandler(REG, runs[k].payload)} :
        /\ verified' = IF json.hasOk /\ json.ok THEN "true" ELSE "false"
        /\ err' = IF ~(json.hasOk /\ json.ok) /\ json.error # "" THEN json.error ELSE err
    /\ verifying' = FALSE
    /\ runs' = [runs EXCEPT ![k].pc = "done"]
    /\ UNCHANGED <<apiVars, refVars, beaconIdHex, nonceHex, connecting, cb, vp, bleVars>>

\* The fetch of run k rejects (lines 261-264).
OnVerifyFail(k) ==
    /\ runs[k].pc = "fetchVerify"
    /\ err' = "Failed to fetch"
    /\ verifying' = FALSE
    /\ runs' = [runs EXCEPT ![k].pc = "done"]
    /\ UNCHANGED <<apiVars, refVars, beaconIdHex, nonceHex, verified, connecting,
                   cb, vp, bleVars>>

\* ------------------------------------------------------------------------
\* The session with the API process listening on FileGood's registry
\* ------------------------------------------------------------------------

Init ==
    /\ REG = loadBeaconRegistry(FileGood).REG
    /\ server = "listening"
    /\ drawn = 0
    /\ apiNonce = <<>>
    /\ apiReq = NoBody
    /\ apiResp = NoReply
    /\ earlier = NoBody
    /\ lib = NoCall
    /\ memo = NoMemo
    /\ SessInit

Next ==
    \/ ClickConnect
    \/ \E dev \in Beacons : CbRequestDevice(dev)
    \/ CbGattConnect
    \/ CbResolve
    \/ CbGetRespChar
    \/ CbReadValue
    \/ CbReject
    \/ disconnectBeacon
    \/ ClickVerify
    \/ \E i \in DOMAIN vp : VpNonceOk(i)
    \/ \E i \in DOMAIN vp : VpNonceFail(i)
    \/ \E i \in DOMAIN vp : VpStartOk(i)
    \/ \E i \in DOMAIN vp : VpStartFail(i)
    \/ \E i \in DOMAIN vp : VpWriteOk(i)
    \/ \E i \in DOMAIN vp : VpWriteFail(i)
    \/ \E c \in 1..MaxConn, kind \in NotifyKinds : Notify(c, kind)
    \/ \E k \in DOMAIN runs : OnVerifyReply(k)
    \/ \E k \in DOMAIN runs : OnVerifyFail(k)

Spec == Init /\ [][Next]_vars

\* The session with an API base (VITE_API_BASE, App.tsx line 7) whose
\* /api/nonce replies with a nonceHex that is empty or of 30 characters.
OddNonces == {<<>>, SubSeq(NonceHandler(1), 1, 30)}

\* Lines 196-208 with such a reply: the value is retained as it is.
VpNonceOdd(i, n) ==
    /\ vp[i].pc = "fetchNonce"
    /\ nonceHex' = n
    /\ nonceRef' = n
    /\ IF ~notifyAttached
       THEN IF conn = 0 THEN VpFail(i, "TypeError")
            ELSE /\ vp' = [vp EXCEPT ![i].pc = "startNotifications", ![i].onChar = conn]
                 /\ UNCHANGED <<err, verifying>>
       ELSE BeginWrite(i, n)
    /\ UNCHANGED <<apiVars, conn, notifyAttached, beaconIdHex, verified,
                   connecting, cb, runs, bleVars>>

AnyApiNext ==
    \/ Next
    \/ \E i \in DOMAIN vp, n \in OddNonces : VpNonceOdd(i, n)

SpecAnyApi == Init /\ [][AnyApiNext]_vars

\* The steps the program takes by itself once the call it awaits settles;
\* the user's clicks and the beacon's notifications are not among them.
ProgramStep ==
    \/ \E dev \in Beacons : CbRequestDevice(dev)
    \/ CbGattConnect \/ CbResolve \/ CbGetRespChar \/ CbReadValue \/ CbReject
    \/ \E i \in DOMAIN vp :
          VpNonceOk(i) \/ VpNonceFail(i) \/ VpStartOk(i) \/ VpStartFail(i)
            \/ VpWriteOk(i) \/ VpWriteFail(i)
    \/ \E k \in DOMAIN runs : OnVerifyFail(k) \/ OnVerifyReply(k)

\* One connection and one verifyPresence call, with every awaited call
\* settling (a continuation that can run does run); nothing makes the user
\* click or the beacon notify.
LiveNext ==
    \/ ClickConnect /\ nConn = 0
    \/ ClickVerify /\ vp = <<>>
    \/ disconnectBeacon
    \/ \E c \in 1..MaxConn, kind \in NotifyKinds : Notify(c, kind)
    \/ ProgramStep

LiveSpec == Init /\ [][LiveNext]_vars /\ WF_vars(ProgramStep)

\* ------------------------------------------------------------------------
\* Claims
\* ------------------------------------------------------------------------

\* C1: when verifyPresence has retained N1 and then N2, nonceRef holds N2
\* alone, and a verify request made by onNotify carries the nonce issued
\* last, never an earlier one.
C1_LatestNonceSubmitted ==
    [][/\ drawn' > 0 => nonceRef' = NonceHandler(drawn')
       /\ \A k \in DOMAIN runs' :
            k \notin DOMAIN runs => runs'[k].payload.nonceHex = NonceHandler(drawn)]_vars

\* C1 witness: two nonces issued, then the first notification, whose verify
\* request carries the second.
C1_Witness ==
    /\ nConn = 1
    /\ drawn = 2
    /\ nNotif = 1
    /\ Len(runs) = 1
    /\ runs[1].payload.nonceHex = NonceHandler(2)

\* The timestamp is a 64-bit value.
TsInRange(tsMs) == Len(BigInt(tsMs)) <= 8

\* C2: for well-formed input the reply is Accepted exactly when the beacon
\* is registered and the signature is the registered key's signature of the
\* canonical message nonce(16) || be64(timestamp) of the supplied nonce and
\* 64-bit timestamp; every other reply is a rejection.
C2_AcceptedIffValid ==
    (server = "listening" /\ BodyValid(apiReq)) =>
        LET pubHex == getPublicKeyHex(REG, apiReq.beaconIdHex) IN
        /\ Accepted(apiResp) <=>
             /\ pubHex.found
             /\ TsInRange(apiReq.tsMs)
             /\ hexToBytes(apiReq.sigHex).value =
                  SignDetached(hexToBytes(pubHex.value).value,
                               hexToBytes(apiReq.nonceHex).value
                                 \o u64StringTo8BE(apiReq.tsMs).value)
        /\ ~Accepted(apiResp) => (apiResp.hasOk /\ ~apiResp.ok)

\* b differs from a in the timestamp's value, the nonce's bytes or the
\* signature's bytes, and in nothing else.
DiffersInOneField(a, b) ==
    \/ /\ BigInt(a.tsMs) # BigInt(b.tsMs)
       /\ a.beaconIdHex = b.beaconIdHex /\ a.nonceHex = b.nonceHex /\ a.sigHex = b.sigHex
    \/ /\ hexToBytes(a.nonceHex).value # hexToBytes(b.nonceHex).value
       /\ a.beaconIdHex = b.beaconIdHex /\ a.tsMs = b.tsMs /\ a.sigHex = b.sigHex
    \/ /\ hexToBytes(a.sigHex).value # hexToBytes(b.sigHex).value
       /\ a.beaconIdHex = b.beaconIdHex /\ a.tsMs = b.tsMs /\ a.nonceHex = b.nonceHex

\* C3: a request that differs from an accepted one only in the timestamp,
\* only in the nonce or only in the signature is not accepted.
C3_VariantRejected ==
    (earlier # NoBody /\ BodyValid(apiReq) /\ DiffersInOneField(earlier, apiReq))
        => ~Accepted(apiResp)

\* C4: for an identifier that is not in the registry the reply is the
\* unknown_beacon rejection, whatever the (well-formed) nonce, timestamp and
\* signature, and the handler has neither built the message nor checked a
\* signature.
C4_UnknownBeaconFirst ==
    (server = "listening" /\ BodyValid(apiReq)
       /\ ~getPublicKeyHex(REG, apiReq.beaconIdHex).found) =>
        /\ apiResp.status = 400
        /\ apiResp.hasOk /\ ~apiResp.ok
        /\ apiResp.error = "unknown_beacon"
        /\ apiResp.steps = <<"validate", "lookup">>

\* C4 witness: an unregistered identifier with a signature that is valid
\* under the registered key of beacon A.
C4_Witness ==
    /\ BeaconIdA \in DOMAIN REG
    /\ apiReq = [beaconIdHex |-> BeaconIdB, nonceHex |-> NonceHandler(1),
                 tsMs |-> Ts5, sigHex |-> SigHexOf(PubA, NonceHandler(1), Ts5)]
    /\ apiResp.error = "unknown_beacon"

\* C5: disconnectBeacon leaves the retained nonce empty, and no connection
\* that still has a listener can deliver a notification.
C5_DisconnectDiscards ==
    [][disconnectBeacon =>
         /\ nonceRef' = <<>>
         /\ \A c \in 1..MaxConn : listeners'[c] # <<>> => c \notin linkUp']_vars

\* C6: the reply to a verify request that was in flight when the session
\* was disconnected changes neither verified nor err.
C6_CancelledResultDiscarded ==
    [][\A k \in DOMAIN runs :
         (runs[k].cancelled /\ runs[k].pc = "fetchVerify" /\ runs'[k].pc = "done")
            => (verified' = verified /\ err' = err)]_vars

\* C7: an attempt that verifyPresence started does not stay pending for
\* ever, also when the beacon never notifies.
C7_AttemptEnds == verifying ~> ~verifying

\* C8: on no connection does startNotifications take effect twice, and no
\* signRespChar has two listeners.
C8_SubscribedOnce ==
    \A c \in 1..MaxConn : startCount[c] <= 1 /\ Len(listeners[c]) <= 1

\* C9: a 70-byte notification handled by a listener sets the malformed
\* response error, clears verifying and makes no verify request.
C9_ShortPayloadFails ==
    [][(\E c \in 1..MaxConn : Notify(c, "short") /\ listeners[c] # <<>>) =>
         /\ err' = "Expected 72B"
         /\ verifying' = FALSE
         /\ runs' = runs]_vars

\* C9 witness: a short notification arrived while verifying, and no verify
\* request was ever made.
C9_Witness ==
    /\ nNotif = 1
    /\ err = "Expected 72B"
    /\ ~verifying
    /\ \E i \in DOMAIN vp : vp[i].pc = "done"
    /\ runs = <<>>

\* C10: no nonce is submitted to the verify endpoint twice.
C10_NonceSubmittedOnce ==
    \A j, k \in DOMAIN runs :
        j # k => runs[j].payload.nonceHex # runs[k].payload.nonceHex

\* C11: buildMessage fails when the timestamp text has a character that is
\* no decimal digit, and when its value is 2^64 or more; it does not reduce
\* such a value modulo 2^64.
C11_TimestampChecked ==
    lib.fn = "buildMessage" =>
        (((\E i \in 1..Len(lib.text2) : ~IsDigitChar(lib.text2[i]))
             \/ ~TsInRange(lib.text2))
           => lib.thrown # "")

\* A field of the body is not of its format: 16, 32 and 128 hex characters,
\* one or more decimal digits.
Malformed(body) ==
    \/ ~MatchesHexN(body.beaconIdHex, 16)
    \/ ~MatchesHexN(body.nonceHex, 32)
    \/ ~MatchesDigits(body.tsMs)
    \/ ~MatchesHexN(body.sigHex, 128)

\* C12: a reply that is not Accepted carries a reason code: unknown_beacon
\* for an unregistered identifier, invalid_signature for a signature that
\* does not verify, and some code for malformed input.
C12_RejectionHasReason ==
    (server = "listening" /\ apiReq # NoBody /\ ~Accepted(apiResp)) =>
        IF Malformed(apiReq) THEN apiResp.error # ""
        ELSE IF ~getPublicKeyHex(REG, apiReq.beaconIdHex).found
             THEN apiResp.error = "unknown_beacon"
             ELSE apiResp.error = "invalid_signature"

\* The status of the reply to a well-formed request for a registered beacon
\* whose signature does not verify.
InvalidSignatureStatus ==
    VerifyHandler(loadBeaconRegistry(FileGood).REG,
                  [beaconIdHex |-> BeaconIdA, nonceHex |-> NonceHandler(1),
                   tsMs |-> Ts5, sigHex |-> Rep("0", 128)]).status

\* C13: a request with a malformed field is rejected by the validation
\* alone, before the lookup and before any signature check, with a status
\* that is not the status of an invalid-signature rejection.
C13_MalformedRejectedFirst ==
    (server = "listening" /\ apiReq # NoBody /\ Malformed(apiReq)) =>
        /\ ~Accepted(apiResp)
        /\ apiResp.steps = <<"validate">>
        /\ apiResp.status # InvalidSignatureStatus

\* C13 witness: the beacon is registered and only the signature is
\* malformed (126 characters).
C13_Witness ==
    /\ BeaconIdA \in DOMAIN REG
    /\ apiReq = [beaconIdHex |-> BeaconIdA, nonceHex |-> NonceHandler(1),
                 tsMs |-> Ts5, sigHex |-> Rep("0", 126)]
    /\ apiResp.status = 400
    /\ apiResp.steps = <<"validate">>

\* C14: a load that fails admits no entry: it leaves the registry as the
\* last successful load made it (empty if there was none), so no lookup
\* sees a part of a file.
C14_LoadAtomic ==
    [][((\E file \in LibFiles : CallLoadBeaconRegistry(file)) /\ lib'.thrown # "")
          => REG' = REG]_vars

\* C15: verified becomes true only by the reply to a verify request of the
\* session that is Accepted; a reply that is a rejection (unknown beacon,
\* invalid signature, malformed input) sets verified to false, and a fetch
\* that fails does not make it true.
C15_NoFailureAsSuccess ==
    [][/\ (verified' = "true" /\ verified # "true") =>
             \E k \in DOMAIN runs :
                 OnVerifyReply(k) /\ Accepted(VerifyHandler(REG, runs[k].payload))
       /\ \A k \in DOMAIN runs :
             (OnVerifyReply(k) /\ ~Accepted(VerifyHandler(REG, runs[k].payload)))
                 => verified' = "false"]_vars

\* C15 witness: the reply to a verify request was unknown_beacon and the
\* session shows verified = false.
C15_Witness ==
    /\ \E k \in DOMAIN runs :
          /\ runs[k].pc = "done"
          /\ VerifyHandler(REG, runs[k].payload).error = "unknown_beacon"
    /\ verified = "false"
    /\ err = "unknown_beacon"

\* The 8 bytes of a BigInt below 2^64, most significant byte first.
BigEndian8(n) == [i \in 1..8 |-> IF 9 - i <= Len(n) THEN n[9 - i] ELSE 0]

\* C16: for a nonce text of 16 bytes and a timestamp of decimal digits below
\* 2^64, buildMessage returns 24 bytes: the nonce, then the timestamp with
\* its most significant byte first; it fails for a nonce text that does not
\* decode to exactly 16 bytes.
C16_MessageLayout ==
    lib.fn = "buildMessage" =>
        LET nonce == hexToBytes(lib.text) IN
        IF nonce.thrown # "" \/ Len(nonce.value) # 16
        THEN lib.thrown # ""
        ELSE (MatchesDigits(lib.text2) /\ TsInRange(lib.text2)) =>
                /\ lib.thrown = ""
                /\ Len(lib.outBytes) = 24
                /\ SubSeq(lib.outBytes, 1, 16) = nonce.value
                /\ SubSeq(lib.outBytes, 17, 24) = BigEndian8(BigInt(lib.text2))

\* C16 witness: the message of timestamp 1700000000000 = 0x018BCFE56800.
C16_Witness ==
    /\ lib.fn = "buildMessage"
    /\ lib.text = NonceHandler(1)
    /\ lib.text2 = TsNow
    /\ lib.outBytes = Rep(0, 15) \o <<1>> \o <<0, 0, 1, 139, 207, 229, 104, 0>>

\* C17: decoding the hex text of a byte sequence gives the byte sequence,
\* and encoding the bytes of a hex text of even length, in either case,
\* gives the text in lower case.
C17_HexRoundTrip ==
    /\ lib.fn = "bytesToHex" => hexToBytes(lib.outText) = Ok(lib.bytes)
    /\ (lib.fn = "hexToBytes" /\ MatchesHexN(lib.text, Len(lib.text))
          /\ Len(lib.text) % 2 = 0)
         => (lib.thrown = "" /\ bytesToHex(lib.outBytes) = toLowerCase(lib.text))

\* C17 witness: a byte below 16 was encoded with its leading zero.
C17_Witness ==
    /\ lib.fn = "bytesToHex"
    /\ lib.bytes = <<9, 171>>
    /\ lib.outText = <<"0", "9", "a", "b">>

\* The identifiers of a file, and the key of the last entry of a file whose
\* identifier is id in some letter case.
FileHasId(file, id) ==
    \E j \in 1..Len(file.entries) : toLowerCase(file.entries[j][1]) = toLowerCase(id)

LastKeyOf(file, id) ==
    LET j == CHOOSE j \in 1..Len(file.entries) :
                 /\ toLowerCase(file.entries[j][1]) = toLowerCase(id)
                 /\ \A m \in (j + 1)..Len(file.entries) :
                        toLowerCase(file.entries[m][1]) # toLowerCase(id)
    IN  file.entries[j][2]

\* C18: after a load that succeeded, a lookup by an identifier in any
\* letter case returns the lower-case key of the entry with that identifier,
\* and a lookup by an identifier that is not in the file returns nothing.
C18_LookupCaseInsensitive ==
    [][((\E id \in LibBeaconIds : CallGetPublicKeyHex(id))
          /\ lib.fn = "loadBeaconRegistry" /\ lib.thrown = "")
         => IF lib.file.exists /\ FileHasId(lib.file, lib'.text)
            THEN lib'.found /\ lib'.outText = toLowerCase(LastKeyOf(lib.file, lib'.text))
            ELSE ~lib'.found]_vars

\* C18 witness: the file has the identifier in upper case and the lookup was
\* made with mixed case.
C18_Witness ==
    /\ lib.fn = "getPublicKeyHex"
    /\ lib.text = toUpperCase(SubSeq(BeaconIdA, 1, 8)) \o SubSeq(BeaconIdA, 9, 16)
    /\ lib.found
    /\ lib.outText = bytesToHex(PubA)
    /\ DOMAIN REG = {BeaconIdA}

\* C19: when connectBeacon fails, at whatever step, an error is shown, no
\* connect is in progress and conn.current holds no connection.
C19_FailedConnectDisconnected ==
    [][CbReject => (err' # "" /\ ~connecting' /\ conn' = 0)]_vars

\* C20: a 72-byte notification handled while nonceRef is empty or not of 32
\* characters sets the "Nonce not ready" error, clears verifying and makes
\* no verify request.
C20_NonceGuard ==
    [][((\E c \in 1..MaxConn : Notify(c, "signed") /\ listeners[c] # <<>>)
          /\ Len(nonceRef) # 32)
         => /\ err' = "Nonce not ready"
            /\ verifying' = FALSE
            /\ runs' = runs]_vars

\* C20 witness: a signed notification arrived while the retained nonce had
\* 30 characters; no verify request was made.
C20_Witness ==
    /\ Len(nonceRef) = 30
    /\ nNotif = 1
    /\ err = "Nonce not ready"
    /\ ~verifying
    /\ runs = <<>>
    /\ \E c \in 1..MaxConn : beaconNonce[c] # <<>> /\ listeners[c] # <<>>

\* C21: a verify call, whatever its body and its reply, changes neither the
\* registry nor anything the nonce endpoint keeps.
C21_VerifyNoSideEffects ==
    [][ApiVerify(apiReq')
         => (REG' = REG /\ drawn' = drawn /\ apiNonce' = apiNonce /\ server' = server)]_vars

\* C21 witness: requests were accepted and rejected, and the registry is the
\* one that was loaded.
C21_Witness ==
    /\ earlier # NoBody
    /\ apiReq # NoBody
    /\ ~Accepted(apiResp)
    /\ REG = loadBeaconRegistry(FileGood).REG

\* C22: a request is answered as it was answered when it was captured,
\* whatever calls were made in between; an accepted request is accepted
\* again, also with a nonce that GET /api/nonce never returned.
C22_SameRequestSameReply ==
    (memo # NoMemo /\ apiReq = memo.body) => apiResp = memo.resp

\* C22 witness: an accepted request was captured, another request was
\* accepted after it, and the replay of the first is accepted, while no
\* nonce has been issued at all.
C22_Witness ==
    /\ Accepted(memo.resp)
    /\ apiReq = memo.body
    /\ Accepted(apiResp)
    /\ earlier # NoBody
    /\ earlier # apiReq
    /\ drawn = 0

\* Exactly n lower-case hex characters.
IsLowerHexN(t, n) == Len(t) = n /\ \A i \in 1..Len(t) : t[i] \in LowerHexSet

\* C23: after any sequence of loads, also failed ones, every key of the
\* registry has 16 lower-case hex characters and every value 64; so for a
\* body that passes validation no step of the handler after the lookup
\* throws.
C23_RegistryEntriesWellFormed ==
    /\ \A k \in DOMAIN REG : IsLowerHexN(k, 16) /\ IsLowerHexN(REG[k], 64)
    /\ \A body \in ApiBodies :
          ~Malformed(body) => VerifyHandler(REG, body).status \in {200, 400}

\* C23 witness: a load failed on its second entry and the registry holds
\* the first.
C23_Witness ==
    /\ lib.fn = "loadBeaconRegistry"
    /\ lib.thrown # ""
    /\ DOMAIN REG = {BeaconIdA}

====
